---- MODULE Spec2Model ----
(***************************************************************************)
(* Bulk keyword generation (BulkGenerator in components/PetInputForm.tsx): *)
(* CSV upload and parsing, the row-at-a-time processing effect with        *)
(* pause / resume / reset, the deduplicated keyword view and the export.   *)
(*                                                                         *)
(* Strings are sequences of atoms.  An atom is either one special          *)
(* character (comma, double quote, newline, carriage return, blank) or a   *)
(* chunk of ordinary characters that contains none of them.                *)
(***************************************************************************)
EXTENDS Integers, Sequences, FiniteSets, TLC

VARIABLES
    file,          \* useState file: NoFile or the chosen file
    csvData,       \* useState csvData: [headers, rows]
    results,       \* useState results: sequence of ResultRow
    status,        \* useState status: idle | running | paused | done
    currentIndex,  \* useState currentIndex
    error,         \* useState error: NoError or a message
    reads,         \* FileReader reads started and not yet delivered (onload pending)
    calls,         \* generateKeywordsFromApi calls issued and not yet returned,
                   \* each with the isCancelled flag of the effect run that issued it
                   \* and a history flag: the user paused or reset since it was issued
    effectPending, \* a dependency of the effect changed in the last commit
    pIn,           \* input of the stand-alone parseCSV run
    pOut           \* its result, NotParsed before the run

vars == <<file, csvData, results, status, currentIndex, error, reads, calls,
          effectPending, pIn, pOut>>

-----------------------------------------------------------------------------
(* Bounds *)

MaxCalls == 2      \* calls outstanding at once
MaxReads == 2      \* file reads outstanding at once
MaxLineLen == 5    \* atoms in a data line given to the stand-alone parseCSV run
MaxRowLen == 3     \* atoms in each data line of the multi-line parseCSV run
MaxKeywords == 3   \* keywords in a response given to the stand-alone outcome mapping

-----------------------------------------------------------------------------
(* Characters and strings *)

QUOTE == "\""
COMMA == ","
NL == "\n"
CR == "\r"
BLANK == " "

Whitespace == {BLANK, NL, CR}

\* null / undefined values: an optional value is a sequence of length 0 or 1
NoFile == <<>>
NotParsed == <<>>
NoError == "NoError"

Range(s) == {s[i] : i \in 1..Len(s)}

\* Array.prototype.join
RECURSIVE Join(_, _)
Join(ss, sep) ==
    IF ss = <<>> THEN <<>>
    ELSE IF Len(ss) = 1 THEN ss[1]
    ELSE ss[1] \o sep \o Join(Tail(ss), sep)

\* String.prototype.trim
RECURSIVE TrimLeft(_)
TrimLeft(s) == IF s # <<>> /\ Head(s) \in Whitespace THEN TrimLeft(Tail(s)) ELSE s

RECURSIVE TrimRight(_)
TrimRight(s) ==
    IF s # <<>> /\ s[Len(s)] \in Whitespace THEN TrimRight(SubSeq(s, 1, Len(s) - 1)) ELSE s

Trim(s) == TrimRight(TrimLeft(s))

\* text.replace(/\r\n/g, '\n')
RECURSIVE NormalizeCRLF(_)
NormalizeCRLF(s) ==
    IF s = <<>> THEN <<>>
    ELSE IF Len(s) >= 2 /\ s[1] = CR /\ s[2] = NL THEN <<NL>> \o NormalizeCRLF(SubSeq(s, 3, Len(s)))
    ELSE <<Head(s)>> \o NormalizeCRLF(Tail(s))

\* String.prototype.split at the separator positions P (a set of indices of s)
SplitAtPositions(s, P) ==
    LET RECURSIVE F(_, _)
        F(start, i) ==
            IF i > Len(s) THEN <<SubSeq(s, start, Len(s))>>
            ELSE IF i \in P THEN <<SubSeq(s, start, i - 1)>> \o F(i + 1, i + 1)
            ELSE F(start, i + 1)
    IN F(1, 1)

SplitOn(s, ch) == SplitAtPositions(s, {i \in 1..Len(s) : s[i] = ch})

QuotesAfter(line, i) == Cardinality({j \in (i + 1)..Len(line) : line[j] = QUOTE})

\* line.split(/,(?=(?:(?:[^"]*"){2})*[^"]*$)/): a comma separates when an even
\* number of double quotes follows it up to the end of the line
QuotedSplitPositions(line) ==
    {i \in 1..Len(line) : line[i] = COMMA /\ QuotesAfter(line, i) % 2 = 0}

SplitQuoted(line) == SplitAtPositions(line, QuotedSplitPositions(line))

\* value.startsWith('"') && value.endsWith('"') ? value.slice(1, -1) : value
StripQuotes(value) ==
    IF value # <<>> /\ value[1] = QUOTE /\ value[Len(value)] = QUOTE
    THEN SubSeq(value, 2, Len(value) - 1)
    ELSE value

\* (values[i] || '').trim(), then the quote stripping
FieldValue(values, i) ==
    StripQuotes(Trim(IF i <= Len(values) THEN values[i] ELSE <<>>))

\* headers.forEach((header, i) => row[header] = ...): a later column of the
\* same name overwrites an earlier one
ParseRow(headers, line) ==
    LET values == SplitQuoted(line)
        last(h) == CHOOSE i \in 1..Len(headers) :
                      /\ headers[i] = h
                      /\ \A j \in 1..Len(headers) : headers[j] = h => j <= i
    IN [h \in Range(headers) |-> FieldValue(values, last(h))]

parseCSV(text) ==
    LET lines == SplitOn(NormalizeCRLF(Trim(text)), NL)
    IN IF Len(lines) < 2 THEN [headers |-> <<>>, rows |-> <<>>]
       ELSE LET headers == [i \in 1..Len(SplitOn(lines[1], COMMA)) |->
                               Trim(SplitOn(lines[1], COMMA)[i])]
            IN [headers |-> headers,
                rows |-> [k \in 1..(Len(lines) - 1) |-> ParseRow(headers, lines[k + 1])]]

-----------------------------------------------------------------------------
(* Inputs: uploaded files and results of the external completion call *)

\* title,x / a,"b, c"
TextQuoted == <<"title", COMMA, "x", NL, "a", COMMA, QUOTE, "b", COMMA, BLANK, "c", QUOTE>>
\* title / a / b / c        (CRLF line ends, trailing newline)
TextThree == <<"title", CR, NL, "a", CR, NL, "b", CR, NL, "c", CR, NL>>
\* header line only
TextHeaderOnly == <<"title", COMMA, "x", NL>>

Files ==
    { [name |-> "quoted.csv", type |-> "text/csv", text |-> TextQuoted],
      [name |-> "three.csv", type |-> "text/csv", text |-> TextThree],
      [name |-> "header.csv", type |-> "text/csv", text |-> TextHeaderOnly],
      [name |-> "notes.txt", type |-> "text/plain", text |-> TextThree] }

KA == <<"a">>
KUpperA == <<"A">>
KQ == <<"5", QUOTE>>
KB == <<"b">>

MsgRateLimited == <<"rate", BLANK, "limited">>
MsgCouldNotParse == <<"Could", BLANK, "not", BLANK, "parse", BLANK, "keywords", BLANK, "from", BLANK, "the", BLANK, "response.">>
MsgUnknown == <<"Unknown", BLANK, "error">>

\* What ai.models.generateContent / JSON.parse can deliver to the caller:
\* a parsed object with a keywords array, a parsed object without one, or an
\* Error with a message (RawOutcomes below adds the empty array, the Error
\* with no message and the thrown value that is not an Error)
ApiOutcomes ==
    { [kind |-> "json", keywords |-> <<kws>>] : kws \in {<<KA, KUpperA>>, <<KQ, KA, KQ>>} }
    \cup { [kind |-> "json", keywords |-> <<>>] }
    \cup { [kind |-> "throwError", message |-> MsgRateLimited] }

-----------------------------------------------------------------------------
(* State after construction *)

Pending == [status |-> "pending", keywords |-> <<>>, error |-> <<>>]

Init ==
    /\ file = NoFile
    /\ csvData = [headers |-> <<>>, rows |-> <<>>]
    /\ results = <<>>
    /\ status = "idle"
    /\ currentIndex = 0
    /\ error = NoError
    /\ reads = <<>>
    /\ calls = <<>>
    /\ effectPending = FALSE
    /\ pIn = <<>>
    /\ pOut = NotParsed

-----------------------------------------------------------------------------
(* Operations of BulkGenerator.  React commits the state updates of one    *)
(* handler together; when a dependency of the effect (status,              *)
(* currentIndex, csvData.rows) changed, the effect runs before the next    *)
(* event is handled, so every other action waits for it.  MaxReads and    *)
(* MaxCalls cap the reads and calls outstanding at once: an action that    *)
(* would lead to one more is not taken at the cap.                         *)

RemoveAt(s, p) == SubSeq(s, 1, p - 1) \o SubSeq(s, p + 1, Len(s))

\* newResults[i] = v on a copy of prev (i is 0-based); writing past the end
\* leaves holes
Hole == [status |-> "hole", keywords |-> <<>>, error |-> <<>>]

SetAt(prev, i, v) ==
    [k \in 1..(IF i + 1 > Len(prev) THEN i + 1 ELSE Len(prev)) |->
        IF k = i + 1 THEN v ELSE IF k <= Len(prev) THEN prev[k] ELSE Hole]

\* history only: the user paused or reset while these calls were outstanding
MarkStale(cs) == [k \in 1..Len(cs) |-> [cs[k] EXCEPT !.stale = TRUE]]

\* handleFileChange: offered only while no file is set (the upload control
\* is rendered in the !file branch)
handleFileChange(f) ==
    /\ ~effectPending
    /\ file = NoFile
    /\ IF f.type # "text/csv"
       THEN /\ error' = "Please upload a valid CSV file."
            /\ UNCHANGED <<file, reads>>
       ELSE /\ Len(reads) < MaxReads
            /\ file' = <<f>>
            /\ error' = NoError
            /\ reads' = Append(reads, f.text)
    /\ UNCHANGED <<csvData, results, status, currentIndex, calls, effectPending, pIn, pOut>>

\* reader.onload of the p-th outstanding read
readerOnload(p) ==
    /\ ~effectPending
    /\ p \in 1..Len(reads)
    /\ Len(calls) < MaxCalls
    /\ reads' = RemoveAt(reads, p)
    /\ LET parsed == parseCSV(reads[p])
       IN IF Len(parsed.rows) = 0 \/ Len(parsed.headers) = 0
          THEN /\ error' = "CSV is empty or invalid."
               /\ UNCHANGED <<csvData, results, effectPending>>
          ELSE /\ csvData' = parsed
               /\ results' = [k \in 1..Len(parsed.rows) |-> Pending]
               /\ effectPending' = TRUE
               /\ UNCHANGED error
    /\ UNCHANGED <<file, status, currentIndex, calls, pIn, pOut>>

\* handleReset that leaves the cursor where it was
handleResetKeepsCursor ==
    /\ ~effectPending
    /\ file # NoFile
    /\ status' = "idle"
    /\ file' = NoFile
    /\ csvData' = [headers |-> <<>>, rows |-> <<>>]
    /\ results' = <<>>
    /\ error' = NoError
    /\ effectPending' = TRUE
    /\ calls' = MarkStale(calls)
    /\ UNCHANGED <<currentIndex, reads, pIn, pOut>>

\* handleReset: the Reset button is rendered only while a file is set
handleReset ==
    /\ ~effectPending
    /\ file # NoFile
    /\ status' = "idle"
    /\ file' = NoFile
    /\ csvData' = [headers |-> <<>>, rows |-> <<>>]
    /\ results' = <<>>
    /\ currentIndex' = 0
    /\ error' = NoError
    /\ effectPending' = TRUE
    /\ calls' = MarkStale(calls)
    /\ UNCHANGED <<reads, pIn, pOut>>

\* toggleProcessing behind a button that is not disabled when status is done
toggleProcessingFromDone ==
    /\ ~effectPending
    /\ file # NoFile
    /\ IF status = "running"
       THEN /\ status' = "paused"
            /\ calls' = MarkStale(calls)
       ELSE /\ Len(calls) < MaxCalls
            /\ status' = "running"
            /\ UNCHANGED calls
    /\ effectPending' = TRUE
    /\ UNCHANGED <<file, csvData, results, currentIndex, error, reads, pIn, pOut>>

\* toggleProcessing: the button is rendered while a file is set and disabled
\* when status is done
toggleProcessing ==
    /\ ~effectPending
    /\ file # NoFile
    /\ status # "done"
    /\ IF status = "running"
       THEN /\ status' = "paused"
            /\ calls' = MarkStale(calls)
       ELSE /\ Len(calls) < MaxCalls
            /\ status' = "running"
            /\ UNCHANGED calls
    /\ effectPending' = TRUE
    /\ UNCHANGED <<file, csvData, results, currentIndex, error, reads, pIn, pOut>>

\* a cleanup that does not raise the flag
CancelledNever(cs) == cs

\* cleanup of the previous effect run: isCancelled = true in its closure
Cancelled(cs) == [k \in 1..Len(cs) |-> [cs[k] EXCEPT !.cancelled = TRUE]]

\* effectRun that puts a processing row back to pending when the run is not
\* running
effectRunRevertsRow ==
    /\ effectPending
    /\ IF status # "running" \/ currentIndex >= Len(csvData.rows)
       THEN /\ IF status = "running" /\ currentIndex >= Len(csvData.rows)
               THEN /\ status' = "done"
                    /\ effectPending' = TRUE
               ELSE /\ effectPending' = FALSE
                    /\ UNCHANGED status
            /\ calls' = Cancelled(calls)
            /\ results' = [k \in 1..Len(results) |->
                              IF results[k].status = "processing"
                              THEN [results[k] EXCEPT !.status = "pending"]
                              ELSE results[k]]
       ELSE /\ results' = SetAt(results, currentIndex,
                                [results[currentIndex + 1] EXCEPT !.status = "processing"])
            /\ calls' = Append(Cancelled(calls),
                               [idx |-> currentIndex, cancelled |-> FALSE, stale |-> FALSE])
            /\ effectPending' = FALSE
            /\ UNCHANGED status
    /\ UNCHANGED <<file, csvData, currentIndex, error, reads, pIn, pOut>>

\* effectRun without the transition to done at the end of the table
effectRunNoDone ==
    /\ effectPending
    /\ IF status # "running" \/ currentIndex >= Len(csvData.rows)
       THEN /\ effectPending' = FALSE
            /\ calls' = Cancelled(calls)
            /\ UNCHANGED <<status, results>>
       ELSE /\ results' = SetAt(results, currentIndex,
                                [results[currentIndex + 1] EXCEPT !.status = "processing"])
            /\ calls' = Append(Cancelled(calls), [idx |-> currentIndex, cancelled |-> FALSE, stale |-> FALSE])
            /\ effectPending' = FALSE
            /\ UNCHANGED status
    /\ UNCHANGED <<file, csvData, currentIndex, error, reads, pIn, pOut>>

\* the useEffect body, run after a commit that changed a dependency
effectRun ==
    /\ effectPending
    /\ IF status # "running" \/ currentIndex >= Len(csvData.rows)
       THEN /\ IF status = "running" /\ currentIndex >= Len(csvData.rows)
               THEN /\ status' = "done"
                    /\ effectPending' = TRUE
               ELSE /\ effectPending' = FALSE
                    /\ UNCHANGED status
            /\ calls' = Cancelled(calls)
            /\ UNCHANGED results
       ELSE /\ results' = SetAt(results, currentIndex,
                                [results[currentIndex + 1] EXCEPT !.status = "processing"])
            /\ calls' = Append(Cancelled(calls), [idx |-> currentIndex, cancelled |-> FALSE, stale |-> FALSE])
            /\ effectPending' = FALSE
            /\ UNCHANGED status
    /\ UNCHANGED <<file, csvData, currentIndex, error, reads, pIn, pOut>>

\* generateKeywordsFromApi, from the point where the service has answered
generateKeywordsFromApi(raw) ==
    IF raw.kind = "json"
    THEN IF raw.keywords # <<>>
         THEN [ok |-> TRUE, keywords |-> raw.keywords[1]]
         ELSE [ok |-> FALSE, isError |-> TRUE, message |-> MsgCouldNotParse]
    ELSE IF raw.kind = "throwError"
    THEN [ok |-> FALSE, isError |-> TRUE, message |-> raw.message]
    ELSE [ok |-> FALSE, isError |-> FALSE, message |-> <<>>]

\* Outcome that falls back to 'Unknown error' whenever the message is empty
OutcomeFallbackOnEmpty(r) ==
    IF r.ok
    THEN [status |-> "completed", keywords |-> r.keywords, error |-> <<>>]
    ELSE [status |-> "error", keywords |-> <<>>,
          error |-> <<IF r.message # <<>> THEN r.message ELSE MsgUnknown>>]

\* the ResultRow that processRow writes for a settled call
Outcome(r) ==
    IF r.ok
    THEN [status |-> "completed", keywords |-> r.keywords, error |-> <<>>]
    ELSE [status |-> "error", keywords |-> <<>>,
          error |-> <<IF r.isError THEN r.message ELSE MsgUnknown>>]

\* callSettles without the isCancelled tests
callSettlesIgnoresCancel(p, raw) ==
    /\ ~effectPending
    /\ p \in 1..Len(calls)
    /\ calls' = RemoveAt(calls, p)
    /\ results' = SetAt(results, calls[p].idx, Outcome(generateKeywordsFromApi(raw)))
    /\ currentIndex' = currentIndex + 1
    /\ effectPending' = TRUE
    /\ UNCHANGED <<file, csvData, status, error, reads, pIn, pOut>>

\* callSettles whose cursor advance is skipped when the call failed
callSettlesNoAdvanceOnError(p, raw) ==
    /\ ~effectPending
    /\ p \in 1..Len(calls)
    /\ calls' = RemoveAt(calls, p)
    /\ IF calls[p].cancelled
       THEN UNCHANGED <<results, currentIndex, effectPending>>
       ELSE /\ results' = SetAt(results, calls[p].idx, Outcome(generateKeywordsFromApi(raw)))
            /\ IF generateKeywordsFromApi(raw).ok
               THEN /\ currentIndex' = currentIndex + 1
                    /\ effectPending' = TRUE
               ELSE UNCHANGED <<currentIndex, effectPending>>
    /\ UNCHANGED <<file, csvData, status, error, reads, pIn, pOut>>

\* callSettles that advances the cursor without writing the row's outcome
callSettlesNoWrite(p, raw) ==
    /\ ~effectPending
    /\ p \in 1..Len(calls)
    /\ calls' = RemoveAt(calls, p)
    /\ IF calls[p].cancelled
       THEN UNCHANGED <<currentIndex, effectPending>>
       ELSE /\ currentIndex' = currentIndex + 1
            /\ effectPending' = TRUE
    /\ UNCHANGED <<file, csvData, results, status, error, reads, pIn, pOut>>

\* processRow after the await: the p-th outstanding call settles with raw
callSettles(p, raw) ==
    /\ ~effectPending
    /\ p \in 1..Len(calls)
    /\ calls' = RemoveAt(calls, p)
    /\ IF calls[p].cancelled
       THEN UNCHANGED <<results, currentIndex, effectPending>>
       ELSE /\ results' = SetAt(results, calls[p].idx, Outcome(generateKeywordsFromApi(raw)))
            /\ currentIndex' = currentIndex + 1
            /\ effectPending' = TRUE
    /\ UNCHANGED <<file, csvData, status, error, reads, pIn, pOut>>

\* new Set(...) iterated in insertion order
RECURSIVE Dedup(_, _)
Dedup(s, acc) ==
    IF s = <<>> THEN acc
    ELSE Dedup(Tail(s), IF Head(s) \in Range(acc) THEN acc ELSE Append(acc, Head(s)))

\* results.filter(completed with keywords).flatMap(r => r.keywords)
CompletedKeywords ==
    LET RECURSIVE F(_)
        F(k) == IF k > Len(results) THEN <<>>
                ELSE (IF results[k].status = "completed" /\ Len(results[k].keywords) > 0
                      THEN results[k].keywords ELSE <<>>) \o F(k + 1)
    IN F(1)

\* allKeywords without the Set
allKeywordsNoSet == CompletedKeywords

\* useMemo allKeywords, a function of results
allKeywords == Dedup(CompletedKeywords, <<>>)

\* s.replace(/"/g, '""')
RECURSIVE DoubleQuotes(_)
DoubleQuotes(s) ==
    IF s = <<>> THEN <<>>
    ELSE (IF Head(s) = QUOTE THEN <<QUOTE, QUOTE>> ELSE <<Head(s)>>) \o DoubleQuotes(Tail(s))

\* one line of rows in handleDownload, for the row at 0-based index
ExportRow(index) ==
    LET row == csvData.rows[index + 1]
        result == results[index + 1]
        keywords == Join(result.keywords, <<";", BLANK>>)
        statusText == IF result.status = "error"
                      THEN <<"Error:", BLANK>> \o result.error[1]
                      ELSE <<result.status>>
        originalValues == [i \in 1..Len(csvData.headers) |->
                              <<QUOTE>> \o DoubleQuotes(row[csvData.headers[i]]) \o <<QUOTE>>]
    IN Join(originalValues \o << <<QUOTE>> \o keywords \o <<QUOTE>>,
                                 <<QUOTE>> \o statusText \o <<QUOTE>> >>, <<COMMA>>)

\* csvContent of handleDownload (the Download button is enabled when status
\* is done)
handleDownload ==
    LET headers == csvData.headers \o << <<"Keywords">>, <<"Status">> >>
        rows == [k \in 1..Len(csvData.rows) |-> ExportRow(k - 1)]
    IN Join(<<Join(headers, <<COMMA>>)>> \o rows, <<NL>>)

Next ==
    \/ \E f \in Files : handleFileChange(f)
    \/ \E p \in 1..MaxReads : readerOnload(p)
    \/ handleReset
    \/ toggleProcessing
    \/ effectRun
    \/ \E p \in 1..MaxCalls, raw \in ApiOutcomes : callSettles(p, raw)

Spec == Init /\ [][Next]_vars

\* parseCSV on its own: a three-column header line followed by one data line
\* drawn from every string of at most MaxLineLen atoms
LineAlphabet == {"a", COMMA, QUOTE, BLANK}

ParseHeaders == <<<<"h1">>, <<"h2">>, <<"h3">>>>
ParseHeaderLine == <<"h1", COMMA, "h2", COMMA, "h3">>

DataLines == UNION {[1..n -> LineAlphabet] : n \in 0..MaxLineLen}

InitParse ==
    /\ file = NoFile
    /\ csvData = [headers |-> <<>>, rows |-> <<>>]
    /\ results = <<>>
    /\ status = "idle"
    /\ currentIndex = 0
    /\ error = NoError
    /\ reads = <<>>
    /\ calls = <<>>
    /\ effectPending = FALSE
    /\ pIn \in {ParseHeaderLine \o <<NL>> \o line : line \in DataLines}
    /\ pOut = NotParsed

parseStep ==
    /\ pOut = NotParsed
    /\ pOut' = <<parseCSV(pIn)>>
    /\ UNCHANGED <<file, csvData, results, status, currentIndex, error, reads, calls,
                   effectPending, pIn>>

NextParse == parseStep

SpecParse == InitParse /\ [][NextParse]_vars

\* parseCSV on tables: a header line (three columns, one column, a repeated
\* column name, names with blanks around them) followed by one or two data
\* lines; the first data line is drawn from every string of at most MaxRowLen
\* atoms, the second from a few short lines
HeaderLines ==
    { <<"h1", COMMA, "h2", COMMA, "h3">>,
      <<"h1">>,
      <<"h1", COMMA, "h1">>,
      <<BLANK, "h1", BLANK, COMMA, "h2">> }

RowLines == UNION {[1..n -> LineAlphabet] : n \in 0..MaxRowLen}

SecondLines == { <<>>, <<"a">>, <<"a", COMMA, "a", COMMA, "a", COMMA, "a">> }

InitParseRows ==
    /\ file = NoFile
    /\ csvData = [headers |-> <<>>, rows |-> <<>>]
    /\ results = <<>>
    /\ status = "idle"
    /\ currentIndex = 0
    /\ error = NoError
    /\ reads = <<>>
    /\ calls = <<>>
    /\ effectPending = FALSE
    /\ pIn \in {h \o <<NL>> \o l1 : h \in HeaderLines, l1 \in RowLines}
               \cup {h \o <<NL>> \o l1 \o <<NL>> \o l2 :
                         h \in HeaderLines, l1 \in RowLines, l2 \in SecondLines}
    /\ pOut = NotParsed

SpecParseRows == InitParseRows /\ [][NextParse]_vars

\* The outcome mapping on its own: what the service call can deliver (any
\* keyword array up to MaxKeywords, no keywords, an Error with or without a
\* message, a thrown value that is not an Error and may carry a text) and the
\* ResultRow processRow writes for it
RawOutcomes ==
    { [kind |-> "json", keywords |-> <<kws>>] :
          kws \in UNION {[1..n -> {KA, KUpperA, KQ, KB}] : n \in 0..MaxKeywords} }
    \cup { [kind |-> "json", keywords |-> <<>>] }
    \cup { [kind |-> "throwError", message |-> m] : m \in {MsgRateLimited, MsgCouldNotParse, <<>>} }
    \cup { [kind |-> "throwOther", carried |-> c] : c \in {<<>>, <<MsgRateLimited>>} }

InitOutcome ==
    /\ file = NoFile
    /\ csvData = [headers |-> <<>>, rows |-> <<>>]
    /\ results = <<>>
    /\ status = "idle"
    /\ currentIndex = 0
    /\ error = NoError
    /\ reads = <<>>
    /\ calls = <<>>
    /\ effectPending = FALSE
    /\ pIn \in RawOutcomes
    /\ pOut = NotParsed

outcomeStep ==
    /\ pOut = NotParsed
    /\ pOut' = <<Outcome(generateKeywordsFromApi(pIn))>>
    /\ UNCHANGED <<file, csvData, results, status, currentIndex, error, reads, calls,
                   effectPending, pIn>>

NextOutcome == outcomeStep

SpecOutcome == InitOutcome /\ [][NextOutcome]_vars

\* A run that is never paused and never reset: the Start button is used only
\* to start.  The effect runs after every commit that changed a dependency,
\* and every outstanding call eventually returns or throws.
NextFullRun ==
    \/ \E f \in Files : handleFileChange(f)
    \/ \E p \in 1..MaxReads : readerOnload(p)
    \/ status # "running" /\ toggleProcessing
    \/ effectRun
    \/ \E p \in 1..MaxCalls, raw \in ApiOutcomes : callSettles(p, raw)

SpecFullRun ==
    /\ Init
    /\ [][NextFullRun]_vars
    /\ WF_vars(effectRun)
    /\ WF_vars(\E p \in 1..MaxCalls, raw \in ApiOutcomes : callSettles(p, raw))

-----------------------------------------------------------------------------
(* Properties *)

RowCount == Len(csvData.rows)
Terminal(r) == r.status \in {"completed", "error"}
ProcessingRows == {k \in 1..Len(results) : results[k].status = "processing"}

\* C1: once a run is started on a loaded table with R >= 1 rows and is never
\* paused or reset, it eventually reaches status done with exactly R
\* outcomes, each completed or error, and the cursor equal to R.
C1_FullRunCompletes ==
    (status = "running" /\ RowCount >= 1)
        ~> (/\ status = "done"
            /\ Len(results) = RowCount
            /\ \A k \in 1..Len(results) : Terminal(results[k])
            /\ currentIndex = RowCount)

\* C1 witness: the three-row table has been run to the end, with a failed
\* row among the outcomes.
C1_Witness ==
    /\ status = "done"
    /\ RowCount = 3
    /\ currentIndex = 3
    /\ Len(results) = 3
    /\ \A k \in 1..3 : Terminal(results[k])
    /\ \E k \in 1..3 : results[k].status = "error"

\* C2: in every reachable state at most one row outcome has status
\* processing, whatever the interleaving of start, pause, resume, reset,
\* file load and call returns.
C2_AtMostOneProcessing == Cardinality(ProcessingRows) <= 1

\* C2 witness: the run was resumed while the call issued before the pause is
\* still outstanding, and one row is processing.
C2_Witness ==
    /\ status = "running"
    /\ Len(calls) = 2
    /\ Cardinality(ProcessingRows) = 1

\* C3: at no time are two external completion calls outstanding at once.
C3_AtMostOneCallOutstanding == Len(calls) <= 1

\* C4: while the run is paused with cursor k, every outcome below k is
\* completed or error, outcome k is processing, terminal or pending, and
\* every outcome above k is pending.
C4_PausePartition ==
    status = "paused" =>
        \A i \in 1..Len(results) :
            /\ i - 1 < currentIndex => Terminal(results[i])
            /\ i - 1 = currentIndex =>
                   results[i].status \in {"processing", "completed", "error", "pending"}
            /\ i - 1 > currentIndex => results[i].status = "pending"

\* C5: a reset step, from whatever state, leaves header set, records and
\* outcomes empty, cursor 0, status idle, no file and no error.
C5_ResetClears ==
    [][handleReset =>
         /\ csvData'.headers = <<>>
         /\ csvData'.rows = <<>>
         /\ results' = <<>>
         /\ currentIndex' = 0
         /\ status' = "idle"
         /\ file' = NoFile
         /\ error' = NoError]_vars

\* C5 witness: the state right after a reset that happened during a run whose
\* call is still outstanding.
C5_Witness ==
    /\ file = NoFile
    /\ calls # <<>>
    /\ status = "idle"
    /\ results = <<>>
    /\ currentIndex = 0

\* C6: when the call for row k fails while the run is running and the result
\* is not discarded, outcome k becomes error with the failure's message and
\* no keywords, the cursor advances to k+1, the status stays running, no
\* other outcome changes, and the effect that runs next starts row k+1.
FailureMessage(raw) ==
    CASE raw.kind = "throwError" -> raw.message
      [] raw.kind = "throwOther" -> MsgUnknown
      [] raw.kind = "json" -> MsgCouldNotParse

Failures == {raw \in ApiOutcomes : raw.kind # "json" \/ raw.keywords = <<>>}

CompletedRows == {k \in 1..Len(results) : results[k].status = "completed"}

\* first occurrence of keyword w: <<row, position>> smallest in row order
FirstRow(w) ==
    CHOOSE k \in CompletedRows :
        /\ w \in Range(results[k].keywords)
        /\ \A j \in CompletedRows : w \in Range(results[j].keywords) => k <= j

FirstPos(w) ==
    CHOOSE i \in 1..Len(results[FirstRow(w)].keywords) :
        /\ results[FirstRow(w)].keywords[i] = w
        /\ \A j \in 1..Len(results[FirstRow(w)].keywords) :
               results[FirstRow(w)].keywords[j] = w => i <= j

Before(w1, w2) ==
    \/ FirstRow(w1) < FirstRow(w2)
    \/ FirstRow(w1) = FirstRow(w2) /\ FirstPos(w1) < FirstPos(w2)

C7_DedupView ==
    LET v == allKeywords IN
    /\ Range(v) = UNION {Range(results[k].keywords) : k \in CompletedRows}
    /\ \A i, j \in 1..Len(v) : i # j => v[i] # v[j]
    /\ \A i, j \in 1..Len(v) : i < j => Before(v[i], v[j])

\* C7 witness: two completed rows share a keyword, and the keywords a and A
\* are both in the view.
C7_Witness ==
    /\ \E k1, k2 \in CompletedRows :
           k1 < k2 /\ Range(results[k1].keywords) \cap Range(results[k2].keywords) # {}
    /\ {KA, KUpperA, KQ} \subseteq Range(allKeywords)
    /\ Len(allKeywords) = 3

\* C8: the run status changes only idle -> running, running -> paused,
\* paused -> running, running -> done (only with the cursor at the row count,
\* and then always), and anything -> idle by reset.
C8_StatusEdges ==
    [][/\ status' # status =>
            \/ status = "idle" /\ status' = "running"
            \/ status = "running" /\ status' = "paused"
            \/ status = "paused" /\ status' = "running"
            \/ status = "running" /\ status' = "done" /\ currentIndex >= RowCount
            \/ status' = "idle" /\ file' = NoFile /\ currentIndex' = 0
       /\ (status = "running" /\ currentIndex >= RowCount) => status' = "done"
      ]_vars

\* C8 witness: a run over a loaded table has reached done.
C8_Witness ==
    /\ status = "done"
    /\ RowCount >= 1
    /\ currentIndex = RowCount
    /\ \A k \in 1..RowCount : Terminal(results[k])

\* The data line given to the stand-alone parse, as parseCSV sees it after
\* trimming the text
ParsedLine == Trim(SubSeq(pIn, Len(ParseHeaderLine) + 2, Len(pIn)))

\* Fields of a line read left to right: a double quote opens or closes a
\* quoted section, and a comma separates fields only outside quoted sections
QuotesBefore(line, i) == Cardinality({j \in 1..(i - 1) : line[j] = QUOTE})

ScanFields(line) ==
    SplitAtPositions(line, {i \in 1..Len(line) :
                               line[i] = COMMA /\ QuotesBefore(line, i) % 2 = 0})

\* a field enclosed in one pair of double quotes, with a comma and no further
\* double quote between them
QuotedWithComma(f) ==
    /\ Len(f) >= 2
    /\ f[1] = QUOTE
    /\ f[Len(f)] = QUOTE
    /\ COMMA \in Range(SubSeq(f, 2, Len(f) - 1))
    /\ QUOTE \notin Range(SubSeq(f, 2, Len(f) - 1))

\* C9: a double-quoted data field that contains commas comes out of parseCSV
\* as one value with the surrounding quotes stripped, and the fields after it
\* keep their column positions.
C9_QuotedCommaKept ==
    (pOut # NotParsed /\ Len(pOut[1].rows) = 1) =>
        LET fields == ScanFields(ParsedLine)
            row == pOut[1].rows[1]
        IN \A c \in 1..Len(ParseHeaders) :
               (c <= Len(fields) /\ QuotedWithComma(Trim(fields[c]))) =>
                   /\ row[ParseHeaders[c]] = SubSeq(Trim(fields[c]), 2, Len(Trim(fields[c])) - 1)
                   /\ \A d \in (c + 1)..Len(ParseHeaders) :
                          row[ParseHeaders[d]] =
                              IF d <= Len(fields) THEN StripQuotes(Trim(fields[d])) ELSE <<>>

\* C10: the exported table has the original headers followed by Keywords and
\* Status; row i holds the record's values in header order, the keywords
\* joined with '; ', and the status name or 'Error: <message>'; every field,
\* those of the header line and the Keywords and Status fields included, is
\* wrapped in double quotes with each embedded double quote doubled.
Quoted(s) == <<QUOTE>> \o DoubleQuotes(s) \o <<QUOTE>>

QuotedLine(fields) == Join([i \in 1..Len(fields) |-> Quoted(fields[i])], <<COMMA>>)

ExpectedExportRow(k) ==
    QuotedLine([i \in 1..Len(csvData.headers) |-> csvData.rows[k][csvData.headers[i]]]
               \o << Join(results[k].keywords, <<";", BLANK>>),
                     IF results[k].status = "error"
                     THEN <<"Error:", BLANK>> \o results[k].error[1]
                     ELSE <<results[k].status>> >>)

ExpectedExport ==
    Join(<<QuotedLine(csvData.headers \o << <<"Keywords">>, <<"Status">> >>)>>
         \o [k \in 1..RowCount |-> ExpectedExportRow(k)], <<NL>>)

C10_ExportAllQuoted ==
    (status = "done" /\ RowCount >= 1 /\ \A k \in 1..RowCount : Terminal(results[k])) =>
        handleDownload = ExpectedExport

\* C11 (as stated): when the run is paused while row k's call is outstanding
\* and that call returns, row k's outcome becomes completed or error without
\* any resume.
C11_PausedRowFinishes ==
    [][\A p \in 1..Len(calls), raw \in ApiOutcomes :
          (/\ status = "paused"
           /\ calls[p].stale
           /\ calls[p].idx = currentIndex
           /\ currentIndex < Len(results)
           /\ results[currentIndex + 1].status = "processing"
           /\ callSettles(p, raw)) =>
              Terminal(results'[currentIndex + 1])
      ]_vars

\* C11 (amended): when the run is paused while row k's call is outstanding,
\* the call is not aborted but its result is discarded when it returns:
\* outcomes, cursor and status stay as they are, no call is issued while the
\* run stays paused, and the resume starts row k again.
C11_PausedRowDiscarded ==
    [][/\ \A p \in 1..Len(calls), raw \in ApiOutcomes :
            (status = "paused" /\ callSettles(p, raw)) =>
                /\ results' = results
                /\ currentIndex' = currentIndex
                /\ status' = "paused"
       /\ (status = "paused" /\ status' = "paused") => Len(calls') <= Len(calls)
       /\ (/\ effectPending
           /\ status = "running"
           /\ currentIndex < RowCount
           /\ results[currentIndex + 1].status = "processing") =>
              /\ results'[currentIndex + 1].status = "processing"
              /\ Len(calls') = Len(calls) + 1
              /\ calls'[Len(calls')].idx = currentIndex
              /\ ~calls'[Len(calls')].cancelled
      ]_vars

\* C11 witness: the run is paused, the call issued for the row at the cursor
\* before the pause is still outstanding, and the row is processing.
C11_Witness ==
    /\ status = "paused"
    /\ ~effectPending
    /\ currentIndex < Len(results)
    /\ results[currentIndex + 1].status = "processing"
    /\ \E p \in 1..Len(calls) : calls[p].stale /\ calls[p].idx = currentIndex

\* C12: when a call returns or throws after the user paused or reset since
\* it was issued, the outcomes, the cursor, the status and the table are left
\* unchanged by that return.
C12_StaleDiscarded ==
    [][\A p \in 1..Len(calls), raw \in ApiOutcomes :
          (calls[p].stale /\ callSettles(p, raw)) =>
              /\ results' = results
              /\ currentIndex' = currentIndex
              /\ status' = status
              /\ csvData' = csvData
      ]_vars

\* C12 witness: rows before the cursor were written, the run is paused, the
\* row at the cursor is still processing and no call is outstanding: its
\* call has returned and the result was dropped.
C12_Witness ==
    /\ status = "paused"
    /\ calls = <<>>
    /\ currentIndex >= 1
    /\ currentIndex < Len(results)
    /\ Terminal(results[currentIndex])
    /\ results[currentIndex + 1].status = "processing"

\* C13: a call is issued only for a row whose outcome is still pending, that
\* is, a row that has not been submitted since the table was loaded.
C13_RowSubmittedOnce ==
    [][Len(calls') > Len(calls) =>
          results[calls'[Len(calls')].idx + 1].status = "pending"]_vars

\* C14: apart from a table load and a reset, each outcome only moves
\* pending -> processing -> completed or error: a completed or error outcome
\* never changes and a processing outcome never returns to pending.
OutcomeStep(a, b) ==
    \/ a = b
    \/ a.status = "pending" /\ b.status = "processing"
    \/ a.status = "processing" /\ Terminal(b)

C14_OutcomesMonotonic ==
    [][\/ Len(reads') < Len(reads)
       \/ file # NoFile /\ file' = NoFile
       \/ /\ Len(results') = Len(results)
          /\ \A i \in 1..Len(results) : OutcomeStep(results[i], results'[i])
      ]_vars

\* C14 witness: one table with a completed, an error and a processing row.
C14_Witness ==
    /\ Len(results) = 3
    /\ results[1].status = "completed"
    /\ results[2].status = "error"
    /\ results[3].status = "processing"

\* C15: in every reachable state 0 <= cursor <= row count, and every row
\* below the cursor is completed or error (no row is skipped).
C15_CursorDiscipline ==
    /\ currentIndex >= 0
    /\ currentIndex <= RowCount
    /\ \A i \in 1..currentIndex : i <= Len(results) /\ Terminal(results[i])

\* C16: whenever the status is done, the cursor equals the row count and
\* every outcome is completed or error.
C16_DoneMeansAllRowsFinished ==
    status = "done" =>
        /\ currentIndex = RowCount
        /\ \A i \in 1..Len(results) : Terminal(results[i])

\* C17: the status is never running, paused or done while the row count is
\* zero.
C17_NoRunWithoutRows ==
    status \in {"running", "paused", "done"} => RowCount > 0

\* C18: when reader.onload rejects a table as empty or invalid, the message
\* is set, no records or outcomes are loaded, and the component is in the
\* no-file state in which the upload control and the message are rendered.
C18_RejectionRecoverable ==
    [][(Len(reads') < Len(reads) /\ error' = "CSV is empty or invalid.") =>
          /\ csvData' = csvData
          /\ results' = results
          /\ file' = NoFile
      ]_vars

\* C19 (as stated): a response with a non-null keywords array gives outcome
\* completed with exactly that array; missing keywords or any thrown failure
\* gives outcome error whose message is the failure's message, or 'Unknown
\* error' when the failure carries no message.
CarriedMessage(raw) ==
    CASE raw.kind = "json" -> MsgCouldNotParse
      [] raw.kind = "throwError" -> raw.message
      [] raw.kind = "throwOther" -> IF raw.carried = <<>> THEN <<>> ELSE raw.carried[1]

C19_OutcomeMapping ==
    pOut # NotParsed =>
        IF pIn.kind = "json" /\ pIn.keywords # <<>>
        THEN pOut[1] = [status |-> "completed", keywords |-> pIn.keywords[1], error |-> <<>>]
        ELSE pOut[1] = [status |-> "error", keywords |-> <<>>,
                        error |-> <<IF CarriedMessage(pIn) # <<>>
                                    THEN CarriedMessage(pIn) ELSE MsgUnknown>>]

\* C19 (amended): a response with a non-null keywords array gives outcome
\* completed with exactly that array; missing keywords or a thrown Error
\* gives outcome error whose message is the Error's message, even when that
\* message is empty; a thrown value that is not an Error gives 'Unknown
\* error', whatever it carries.
C19_OutcomeMappingByType ==
    pOut # NotParsed =>
        IF pIn.kind = "json" /\ pIn.keywords # <<>>
        THEN pOut[1] = [status |-> "completed", keywords |-> pIn.keywords[1], error |-> <<>>]
        ELSE pOut[1] = [status |-> "error", keywords |-> <<>>,
                        error |-> <<IF pIn.kind = "throwOther"
                                    THEN MsgUnknown ELSE CarriedMessage(pIn)>>]

\* C19 witness: an Error with an empty message was mapped to an error
\* outcome with an empty message.
C19_Witness ==
    /\ pOut # NotParsed
    /\ pIn.kind = "throwError"
    /\ pIn.message = <<>>
    /\ pOut[1].status = "error"
    /\ pOut[1].error = << <<>> >>

\* C20: parseCSV produces exactly one record per line after the first and
\* maps each such line positionally onto the headers: field i goes to
\* header i, a header with no corresponding field gets the empty string,
\* fields beyond the header count are dropped, and every record has exactly
\* the header names as its keys.  The lines are those of the trimmed text
\* and the fields of a line are the pieces the split of parseCSV yields.
TextLines(text) == SplitOn(NormalizeCRLF(Trim(text)), NL)

C20_PositionalMapping ==
    (pOut # NotParsed /\ Len(TextLines(pIn)) >= 2) =>
        LET headers == pOut[1].headers
            rows == pOut[1].rows
        IN /\ Len(rows) = Len(TextLines(pIn)) - 1
           /\ \A k \in 1..Len(rows) :
                 /\ DOMAIN rows[k] = Range(headers)
                 /\ \A i \in 1..Len(headers) :
                       rows[k][headers[i]] =
                           FieldValue(SplitQuoted(TextLines(pIn)[k + 1]), i)

\* C21: the header set parseCSV produces is a sequence of pairwise distinct
\* column names, so every record holds one value per header position and no
\* column's value is overwritten by another column of the same name.
C21_HeadersDistinct ==
    pOut # NotParsed =>
        LET headers == pOut[1].headers
            rows == pOut[1].rows
        IN /\ \A i, j \in 1..Len(headers) : i # j => headers[i] # headers[j]
           /\ \A k \in 1..Len(rows) : Cardinality(DOMAIN rows[k]) = Len(headers)

====
